---- MODULE Spec2Model ----
(***************************************************************************)
(* Model of the image-editing service adapter of image-app                 *)
(* (src/services/geminiService.js): applyImageEffect and its helper        *)
(* fetchImageAsBase64, the request-versus-timeout race and the error       *)
(* classification of the catch block; of the editor screen that calls it   *)
(* (src/app/(tabs)/editor.tsx); and of the camera screen                   *)
(* (src/unnamed/part_000) with its CameraView                              *)
(* (src/components/CameraView.tsx).                                        *)
(*                                                                         *)
(* Spec follows one invocation of the service, SpecFair the same under     *)
(* fairness of the clock, the timer and the endpoint, SpecConc two         *)
(* invocations in flight together, SpecEditor the editor screen composed   *)
(* with the service (the camera screen appears as the sender of route      *)
(* params), SpecCamera                                                     *)
(* the camera screen with its CameraViews (the editor appears as the       *)
(* receiver of route params), SpecViewFair the CameraView under fairness   *)
(* of the permission answer and of the launch timer.                       *)
(*                                                                         *)
(* Representation.  A JavaScript object is a record; a property that is    *)
(* absent (undefined) is a field that is not in the record's DOMAIN.  A    *)
(* text (prompt, error message, data URI) is a sequence of fragments, so   *)
(* that concatenation is \o, String.includes is fragment membership and    *)
(* String.trim strips whitespace fragments from both ends.  Plain          *)
(* identifiers (URIs, keys, effect names, error codes) are strings.        *)
(***************************************************************************)
EXTENDS Integers, Sequences, FiniteSets, TLC

(***************************************************************************)
(* JavaScript values                                                       *)
(***************************************************************************)
\* The value `undefined' of a string-typed argument or configuration entry.
UNDEFINED == "<undefined>"

\* A thrown or rejected value that is null or undefined (it has no properties).
Nullish == [nullish |-> TRUE]

\* !v for a string-typed value: undefined and the empty string are falsy.
Falsy(v) == v \in {UNDEFINED, ""}

IsNullish(e) == "nullish" \in DOMAIN e

Has(obj, field) == field \in DOMAIN obj

(***************************************************************************)
(* Texts                                                                   *)
(***************************************************************************)
Whitespace == {" ", "\t", "\n"}

RECURSIVE TrimStart(_)
TrimStart(t) ==
  IF t # <<>> /\ Head(t) \in Whitespace THEN TrimStart(Tail(t)) ELSE t

RECURSIVE TrimEnd(_)
TrimEnd(t) ==
  IF t # <<>> /\ t[Len(t)] \in Whitespace
    THEN TrimEnd(SubSeq(t, 1, Len(t) - 1))
    ELSE t

\* String.prototype.trim
Trim(t) == TrimEnd(TrimStart(t))

\* String.prototype.includes, for the needles the classifier looks for
Includes(t, needle) == \E i \in 1..Len(t) : t[i] = needle

\* String.prototype.toLowerCase on the effect names of the model
ToLowerCase(s) ==
  CASE s = "Custom"  -> "custom"
    [] s = "CUSTOM"  -> "custom"
    [] s = "Enhance" -> "enhance"
    [] s = "STYLE"   -> "style"
    [] s = "Foo"     -> "foo"
    [] OTHER         -> s

\* String.prototype.split(","): the texts between the "," fragments
RECURSIVE SplitComma(_)
SplitComma(t) ==
  IF \A i \in 1..Len(t) : t[i] # ","
    THEN <<t>>
    ELSE LET k == CHOOSE i \in 1..Len(t) :
                    t[i] = "," /\ \A j \in 1..(i - 1) : t[j] # ","
         IN  <<SubSeq(t, 1, k - 1)>> \o SplitComma(SubSeq(t, k + 1, Len(t)))

(***************************************************************************)
(* Errors                                                                  *)
(***************************************************************************)
\* new Error(message)
Error(message) == [name |-> "Error", message |-> message]

\* the TypeError the runtime raises on a property access or iteration of undefined
TypeError(message) == [name |-> "TypeError", message |-> message]

\* class GeminiError: new GeminiError(message, code) has originalError = null
GeminiError(message, code) ==
  [name |-> "GeminiError", message |-> message, code |-> code]

\* new GeminiError(message, code, originalError)
GeminiErrorFrom(message, code, originalError) ==
  [name |-> "GeminiError", message |-> message, code |-> code,
   originalError |-> originalError]

\* the error codes the service uses
ErrorCodes ==
  {"MISSING_IMAGE", "EMPTY_PROMPT", "MISSING_API_KEY",
   "IMAGE_PROCESSING_ERROR", "IMAGE_CONVERSION_ERROR", "NETWORK_ERROR",
   "TIMEOUT", "RATE_LIMIT", "AUTH_ERROR", "NO_CANDIDATES",
   "NO_IMAGE_RETURNED", "UNKNOWN_ERROR"}

\* completions of a synchronous stretch of code
Throw(e) == [type |-> "throw", error |-> e]
Return(v) == [type |-> "return", value |-> v]
Continue == [type |-> "continue"]

(***************************************************************************)
(* applyImageEffect: input validation                                      *)
(***************************************************************************)
PLACEHOLDER_KEY == "YOUR_API_KEY_HERE"

\* Validate without the comparison with the placeholder key
ValidateNoPlaceholder(imageUri, effectName, customPrompt, key) ==
  IF Falsy(imageUri)
    THEN Throw(GeminiError(<<"No image provided">>, "MISSING_IMAGE"))
  ELSE IF effectName = "Custom" /\ Trim(customPrompt) = <<>>
    THEN Throw(GeminiError(<<"Custom prompt is empty">>, "EMPTY_PROMPT"))
  ELSE IF Falsy(key)
    THEN Throw(GeminiError(<<"Gemini API key is not configured">>,
                           "MISSING_API_KEY"))
  ELSE Continue

Validate(imageUri, effectName, customPrompt, key) ==
  IF Falsy(imageUri)
    THEN Throw(GeminiError(<<"No image provided">>, "MISSING_IMAGE"))
  ELSE IF effectName = "Custom" /\ Trim(customPrompt) = <<>>
    THEN Throw(GeminiError(<<"Custom prompt is empty">>, "EMPTY_PROMPT"))
  ELSE IF Falsy(key) \/ key = PLACEHOLDER_KEY
    THEN Throw(GeminiError(<<"Gemini API key is not configured">>,
                           "MISSING_API_KEY"))
  ELSE Continue

(***************************************************************************)
(* applyImageEffect: the prompt                                            *)
(***************************************************************************)
\* BuildPrompt comparing the effect name with "Custom" without lower-casing it
BuildPromptCustomExact(effectName, customPrompt) ==
  IF effectName = "Custom" /\ customPrompt # <<>>
    THEN customPrompt
    ELSE CASE ToLowerCase(effectName) = "enhance" ->
                <<"Enhance this image to make it look more professional with better lighting and colors.">>
           [] ToLowerCase(effectName) = "style" ->
                <<"Transform this image into an artistic style, like a painting.">>
           [] ToLowerCase(effectName) = "crop" ->
                <<"Crop and frame this image to focus on the main subject.">>
           [] ToLowerCase(effectName) = "adjust" ->
                <<"Adjust the contrast and brightness of this image to make it look better.">>
           [] OTHER ->
                <<"Apply a ", effectName, " effect to this image.">>

\* BuildPrompt switching on the effect name without lower-casing it
BuildPromptNoLowerCase(effectName, customPrompt) ==
  IF ToLowerCase(effectName) = "custom" /\ customPrompt # <<>>
    THEN customPrompt
    ELSE CASE effectName = "enhance" ->
                <<"Enhance this image to make it look more professional with better lighting and colors.">>
           [] effectName = "style" ->
                <<"Transform this image into an artistic style, like a painting.">>
           [] effectName = "crop" ->
                <<"Crop and frame this image to focus on the main subject.">>
           [] effectName = "adjust" ->
                <<"Adjust the contrast and brightness of this image to make it look better.">>
           [] OTHER ->
                <<"Apply a ", effectName, " effect to this image.">>

BuildPrompt(effectName, customPrompt) ==
  IF ToLowerCase(effectName) = "custom" /\ customPrompt # <<>>
    THEN customPrompt
    ELSE CASE ToLowerCase(effectName) = "enhance" ->
                <<"Enhance this image to make it look more professional with better lighting and colors.">>
           [] ToLowerCase(effectName) = "style" ->
                <<"Transform this image into an artistic style, like a painting.">>
           [] ToLowerCase(effectName) = "crop" ->
                <<"Crop and frame this image to focus on the main subject.">>
           [] ToLowerCase(effectName) = "adjust" ->
                <<"Adjust the contrast and brightness of this image to make it look better.">>
           [] OTHER ->
                <<"Apply a ", effectName, " effect to this image.">>

\* the argument of model.generateContent
GenerateContentRequest(prompt, imageData) ==
  [contents |-> <<[parts |-> <<[text |-> prompt],
                               [inlineData |-> [mimeType |-> "image/jpeg",
                                                data |-> imageData]]>>]>>,
   generationConfig |-> [responseModalities |-> <<"Text", "Image">>]]

TIMEOUT_MS == 60000

\* TimeoutError with a message the catch block does not recognise
TimeoutErrorReworded == Error(<<"Request ", "timeout">>)

TimeoutError == Error(<<"Request ", "timed out">>)

(***************************************************************************)
(* applyImageEffect: extraction of the image from the response             *)
(***************************************************************************)
\* FindImage keeping the last image part instead of returning at the first
RECURSIVE FindImageLast(_)
FindImageLast(parts) ==
  IF parts = <<>>
    THEN Throw(GeminiError(<<"No image was returned from Gemini API">>,
                           "NO_IMAGE_RETURNED"))
  ELSE IF Has(parts[Len(parts)], "inlineData")
    THEN Return(<<"data:", parts[Len(parts)].inlineData.mimeType, ";base64,">>
                \o parts[Len(parts)].inlineData.data)
  ELSE FindImageLast(SubSeq(parts, 1, Len(parts) - 1))

\* for (const part of parts) if (part.inlineData) return `data:...`
RECURSIVE FindImage(_)
FindImage(parts) ==
  IF parts = <<>>
    THEN Throw(GeminiError(<<"No image was returned from Gemini API">>,
                           "NO_IMAGE_RETURNED"))
  ELSE IF Has(Head(parts), "inlineData")
    THEN Return(<<"data:", Head(parts).inlineData.mimeType, ";base64,">>
                \o Head(parts).inlineData.data)
  ELSE FindImage(Tail(parts))

\* the code after `await Promise.race', given the value the race resolved to
Extract(result) ==
  IF ~Has(result, "response")
    THEN Throw(TypeError(<<"Cannot read property 'candidates' of undefined">>))
  ELSE IF ~Has(result.response, "candidates")
          \/ Len(result.response.candidates) = 0
    THEN Throw(GeminiError(<<"The AI model did not return any results">>,
                           "NO_CANDIDATES"))
  ELSE IF ~Has(result.response.candidates[1], "content")
    THEN Throw(TypeError(<<"Cannot read property 'parts' of undefined">>))
  ELSE IF ~Has(result.response.candidates[1].content, "parts")
    THEN Throw(TypeError(<<"undefined is not iterable">>))
  ELSE FindImage(result.response.candidates[1].content.parts)

(***************************************************************************)
(* applyImageEffect: the catch block                                       *)
(***************************************************************************)
HasMessage(error) == Has(error, "message") /\ error.message # <<>>

\* the value the catch block throws, given the value it caught
Catch(error) ==
  IF IsNullish(error)
    THEN TypeError(<<"Cannot read property 'name' of ", "null">>)
  ELSE IF Has(error, "name") /\ error.name = "GeminiError"
    THEN error
  ELSE IF HasMessage(error) /\ Includes(error.message, "Network Error")
    THEN GeminiErrorFrom(
           <<"Network error. Please check your internet connection.">>,
           "NETWORK_ERROR", error)
  ELSE IF HasMessage(error) /\ Includes(error.message, "timed out")
    THEN GeminiErrorFrom(
           <<"Request timed out. The AI service is taking too long to respond.">>,
           "TIMEOUT", error)
  ELSE IF HasMessage(error)
          /\ (\/ Includes(error.message, "quota")
              \/ Includes(error.message, "rate limit")
              \/ Includes(error.message, "429"))
    THEN GeminiErrorFrom(
           <<"API rate limit exceeded. Please try again later.">>,
           "RATE_LIMIT", error)
  ELSE IF HasMessage(error)
          /\ (\/ Includes(error.message, "authentication")
              \/ Includes(error.message, "API key")
              \/ Includes(error.message, "401"))
    THEN GeminiErrorFrom(
           <<"Authentication error. Please check your API key.">>,
           "AUTH_ERROR", error)
  ELSE GeminiErrorFrom(
         <<"An error occurred while processing your image. Please try again.">>,
         "UNKNOWN_ERROR", error)

(***************************************************************************)
(* fetchImageAsBase64                                                      *)
(***************************************************************************)
\* the catch block of fetchImageAsBase64
FetchCatch(error) ==
  GeminiErrorFrom(
    <<"Failed to process the image file. The image may be corrupted or too large.">>,
    "IMAGE_CONVERSION_ERROR", error)

\* the catch block around `await fetchImageAsBase64(imageUri)'
ImageCatch(error) ==
  GeminiErrorFrom(
    <<"Failed to process the image. Please try a different image.">>,
    "IMAGE_PROCESSING_ERROR", error)

\* response.ok
Ok(status) == status \in 200..299

\* FileReader.readAsDataURL: reader.result for a blob
ReadAsDataURL(blob) == <<"data:", blob.type, ";base64", ",">> \o blob.data

\* reader.onload: reader.result.split(",")[1]
OnLoad(readerResult) == SplitComma(readerResult)[2]

(***************************************************************************)
(* The environment: callers, the file system, the endpoint, the clock      *)
(***************************************************************************)
\* the invocations of applyImageEffect that are followed
CallIds == {1, 2}

ImageA == "file:///a.jpg"
ImageB == "file:///b.jpg"

ImageUris == {UNDEFINED, ImageA, ImageB}

EffectNames ==
  {"Custom", "custom", "CUSTOM", "enhance", "Enhance", "style", "crop",
   "adjust", "Foo"}

CustomPrompts ==
  {<<>>, <<" ", "\n">>, <<" ", "make it blue", " ">>, <<"make it blue">>}

\* values of GEMINI_API_KEY in config.js
ApiKeys == {UNDEFINED, PLACEHOLDER_KEY, "AIzaSy-key"}

\* HTTP statuses fetch(uri) can report
Statuses == {200, 404}

\* what response.blob() yields for the file at a URI
BlobAt(uri) ==
  [type |-> "image/jpeg",
   data |-> IF uri = ImageA THEN <<"QUFB">> ELSE <<"QkJC">>]

\* values fetch(uri) rejects with
FetchFailures == {TypeError(<<"Network request failed">>)}

\* values response.blob() rejects with
BlobFailures == {Error(<<"Failed to read the response body">>)}

\* the ProgressEvent FileReader.onerror passes to reject
ProgressEvent == [type |-> "error"]

\* the image the endpoint sends back for a request
EditedImage(request) ==
  <<"edited:">> \o request.contents[1].parts[2].inlineData.data

ImagePart(request) ==
  [inlineData |-> [mimeType |-> "image/png", data |-> EditedImage(request)]]

OtherImagePart == [inlineData |-> [mimeType |-> "image/jpeg", data |-> <<"T1RIRVI=">>]]

TextPart == [text |-> <<"Here is your image">>]

Candidate(parts) == [content |-> [parts |-> parts]]

\* values generateContent can resolve with
EndpointResults(request) ==
  {[response |-> [candidates |-> cs]] :
      cs \in {<<Candidate(<<ImagePart(request)>>)>>,
              <<Candidate(<<TextPart, ImagePart(request), OtherImagePart>>),
                Candidate(<<OtherImagePart>>)>>,
              <<Candidate(<<TextPart>>), Candidate(<<OtherImagePart>>)>>,
              <<Candidate(<<>>)>>,
              <<[content |-> [role |-> "model"]]>>,
              <<[finishReason |-> "SAFETY"]>>,
              <<>>}}
  \cup {[response |-> [promptFeedback |-> "blocked"]], [status |-> "empty"]}

\* values generateContent can reject with
EndpointFailures ==
  {Error(<<"Network Error">>),
   Error(<<"Network Error", ": ", "429">>),
   Error(<<"The operation ", "timed out">>),
   Error(<<"[", "429", "] ", "quota", " exceeded">>),
   Error(<<"API key", " not valid. ", "401">>),
   Error(<<"Internal error">>),
   [status |-> "rejected"],
   Nullish}

\* times (ms) the endpoint takes to settle
Latencies == {10000, 60000, 61000}

(***************************************************************************)
(* State                                                                   *)
(***************************************************************************)
VARIABLES
  apiKey,     \* GEMINI_API_KEY
  now,        \* the clock, in ms
  pc,         \* per call: where applyImageEffect is suspended
  args,       \* per call: imageUri, effectName, customPrompt
  imageData,  \* per call: the base64 the fetcher returned
  timer,      \* per call: the setTimeout of timeoutPromise
  api,        \* per call: apiPromise, the generateContent request
  outcome,    \* per call: what the caller's promise settled to
  calls,      \* per call: how often fetch, generateContent, setTimeout ran
  io,         \* per call: what fetch, response.blob() and the FileReader did
  editor,     \* the state, the ref and the pending handlers of ImageEditorScreen
  nav,        \* the focused tab and the route params of the editor
  camera,     \* the state and the pending handlers of CameraScreen
  view,       \* per key: the CameraView instance rendered with that key
  library     \* the images saved to the media library

serviceVars ==
  <<apiKey, now, pc, args, imageData, timer, api, outcome, calls, io>>

cameraVars == <<camera, view, library>>

uiVars == <<editor, nav, camera, view, library>>

vars ==
  <<apiKey, now, pc, args, imageData, timer, api, outcome, calls, io, editor,
    nav, camera, view, library>>

\* the value null of a text-typed state or ref
NULL == <<"<null>">>

\* !!v for a text-typed value: null and the empty string are falsy
Truthy(t) == t # NULL /\ t # <<>>

\* the useState and useRef initial values of ImageEditorScreen; awaiting is
\* the invocation applyCustomPrompt is suspended on (0: none), picking tells
\* that pickImage is suspended on the gallery picker, alert that the
\* "AI Modification Applied" alert is on screen
InitialEditor ==
  [selectedImage |-> NULL, processedImage |-> NULL, isProcessing |-> FALSE,
   currentEffect |-> NULL, customPrompt |-> <<>>, errorMessage |-> NULL,
   showErrorModal |-> FALSE, lastImageUriRef |-> NULL, awaiting |-> 0,
   picking |-> FALSE, alert |-> FALSE]

\* the largest value of the key state of CameraScreen that is followed
MaxKey == 3

\* the most goToEditor calls suspended on the save at one time
MaxSaves == 1

Keys == 1..MaxKey

\* CameraScreen after its first render and the first run of its focus effect
\* (key 0 -> 1); saving holds the image each suspended goToEditor captured,
\* alert tells that the "Failed to save image" alert is on screen
InitialCamera ==
  [hasPermission |-> "null", isFrontCamera |-> FALSE, capturedImage |-> NULL,
   key |-> 1, saving |-> <<>>, alert |-> FALSE]

\* a key no CameraView was rendered with yet
NoView ==
  [isMounted |-> FALSE, front |-> FALSE, hasPermission |-> "null",
   capturedImage |-> NULL, isCapturing |-> FALSE, permission |-> "none",
   timer |-> "unset", inFlight |-> 0]

\* a CameraView after its first render and the start of its mount effect:
\* the permission request is pending
MountedView(front) ==
  [NoView EXCEPT !.isMounted = TRUE, !.front = front,
                 !.permission = "pending"]

\* an unmounted CameraView none of whose callbacks is still to run
GoneView == [NoView EXCEPT !.permission = "gone"]

NoArgs == [effectName |-> UNDEFINED]

Init ==
  /\ apiKey \in ApiKeys
  /\ now = 0
  /\ pc = [c \in CallIds |-> "idle"]
  /\ args = [c \in CallIds |-> NoArgs]
  /\ imageData = [c \in CallIds |-> <<>>]
  /\ timer = [c \in CallIds |-> [state |-> "unset"]]
  /\ api = [c \in CallIds |-> [state |-> "none"]]
  /\ outcome = [c \in CallIds |-> [status |-> "pending"]]
  /\ calls = [c \in CallIds |-> [fetch |-> 0, endpoint |-> 0, timer |-> 0]]
  /\ io = [c \in CallIds |->
            [status |-> 0, blob |-> "none", reader |-> "none"]]
  /\ editor = InitialEditor
  /\ nav = [tab |-> "camera", imageUri |-> NULL]
  /\ camera = InitialCamera
  /\ view = [k \in Keys |-> NoView]
  /\ library = {}

\* the try block completed (returned or threw): settle the caller's promise
Deliver(c, completion) ==
  /\ pc' = [pc EXCEPT ![c] = "done"]
  /\ outcome' = [outcome EXCEPT ![c] =
        IF completion.type = "return"
          THEN [status |-> "resolved", value |-> completion.value]
          ELSE [status |-> "rejected", error |-> Catch(completion.error)]]

\* Invoke with the image fetch started before the inputs are validated
InvokeFetchFirst(c, imageUri, effectName, customPrompt) ==
  /\ pc[c] = "idle"
  /\ args' = [args EXCEPT ![c] = [imageUri |-> imageUri,
                                  effectName |-> effectName,
                                  customPrompt |-> customPrompt]]
  /\ calls' = [calls EXCEPT ![c].fetch = @ + 1]
  /\ LET v == Validate(imageUri, effectName, customPrompt, apiKey)
     IN  IF v.type = "throw"
           THEN Deliver(c, v)
           ELSE /\ pc' = [pc EXCEPT ![c] = "fetch"]
                /\ UNCHANGED outcome
  /\ UNCHANGED <<apiKey, now, imageData, timer, api, io>>

\* applyImageEffect(imageUri, effectName, customPrompt) up to `await fetch(uri)'
Invoke(c, imageUri, effectName, customPrompt) ==
  /\ pc[c] = "idle"
  /\ args' = [args EXCEPT ![c] = [imageUri |-> imageUri,
                                  effectName |-> effectName,
                                  customPrompt |-> customPrompt]]
  /\ LET v == Validate(imageUri, effectName, customPrompt, apiKey)
     IN  IF v.type = "throw"
           THEN /\ Deliver(c, v)
                /\ UNCHANGED calls
           ELSE /\ pc' = [pc EXCEPT ![c] = "fetch"]
                /\ calls' = [calls EXCEPT ![c].fetch = @ + 1]
                /\ UNCHANGED outcome
  /\ UNCHANGED <<apiKey, now, imageData, timer, api, io>>

\* fetch(uri) resolved: the response.ok check, then `await response.blob()'
FetchResolves(c, status) ==
  /\ pc[c] = "fetch"
  /\ IF Ok(status)
       THEN /\ pc' = [pc EXCEPT ![c] = "blob"]
            /\ UNCHANGED outcome
       ELSE Deliver(c, Throw(ImageCatch(FetchCatch(
              Error(<<"Failed to fetch image: ", ToString(status)>>)))))
  /\ io' = [io EXCEPT ![c].status = status]
  /\ UNCHANGED <<uiVars, apiKey, now, args, imageData, timer, api, calls>>

\* fetch(uri) rejected
FetchRejects(c, error) ==
  /\ pc[c] = "fetch"
  /\ Deliver(c, Throw(ImageCatch(FetchCatch(error))))
  /\ UNCHANGED <<uiVars, apiKey, now, args, imageData, timer, api, calls, io>>

\* response.blob() resolved: the FileReader is started and its promise returned
BlobResolves(c) ==
  /\ pc[c] = "blob"
  /\ pc' = [pc EXCEPT ![c] = "read"]
  /\ io' = [io EXCEPT ![c].blob = "resolved"]
  /\ UNCHANGED <<uiVars, apiKey, now, args, imageData, timer, api, outcome, calls>>

\* response.blob() rejected
BlobRejects(c, error) ==
  /\ pc[c] = "blob"
  /\ Deliver(c, Throw(ImageCatch(FetchCatch(error))))
  /\ io' = [io EXCEPT ![c].blob = "rejected"]
  /\ UNCHANGED <<uiVars, apiKey, now, args, imageData, timer, api, calls>>

\* reader.onload: the base64 is returned, the prompt is built, the timer is
\* started and the request is sent; applyImageEffect awaits the race
ReaderLoads(c, latency) ==
  /\ pc[c] = "read"
  /\ LET base64 == OnLoad(ReadAsDataURL(BlobAt(args[c].imageUri)))
         prompt == BuildPrompt(args[c].effectName, args[c].customPrompt)
     IN  /\ imageData' = [imageData EXCEPT ![c] = base64]
         /\ timer' = [timer EXCEPT ![c] =
                        [state |-> "armed", due |-> now + TIMEOUT_MS]]
         /\ api' = [api EXCEPT ![c] =
                      [state |-> "pending", sentAt |-> now, due |-> now + latency,
                       request |-> GenerateContentRequest(prompt, base64)]]
  /\ calls' = [calls EXCEPT ![c].timer = @ + 1, ![c].endpoint = @ + 1]
  /\ pc' = [pc EXCEPT ![c] = "race"]
  /\ io' = [io EXCEPT ![c].reader = "loaded"]
  /\ UNCHANGED <<uiVars, apiKey, now, args, outcome>>

\* reader.onerror: the returned promise rejects outside fetchImageAsBase64's try
ReaderErrors(c) ==
  /\ pc[c] = "read"
  /\ Deliver(c, Throw(ImageCatch(ProgressEvent)))
  /\ io' = [io EXCEPT ![c].reader = "error"]
  /\ UNCHANGED <<uiVars, apiKey, now, args, imageData, timer, api, calls>>

\* EndpointResolves with one response slot shared by the calls in flight: a
\* call can be handed the answer to another call's request
EndpointResolvesShared(c) ==
  /\ api[c].state = "pending"
  /\ api[c].due <= now
  /\ \E d \in {e \in CallIds : api[e].state # "none"} :
       \E result \in EndpointResults(api[d].request) :
         IF pc[c] = "race"
           THEN /\ Deliver(c, Extract(result))
                /\ api' = [api EXCEPT ![c] =
                      [state |-> "settled", sentAt |-> @.sentAt, due |-> @.due,
                       request |-> @.request, result |-> result]]
           ELSE /\ api' = [api EXCEPT ![c] =
                      [state |-> "late", sentAt |-> @.sentAt, due |-> @.due,
                       request |-> @.request, result |-> result]]
                /\ UNCHANGED <<pc, outcome>>
  /\ UNCHANGED <<uiVars, apiKey, now, args, imageData, timer, calls, io>>

\* apiPromise resolves; it decides the call only if the race is still open
EndpointResolves(c) ==
  /\ api[c].state = "pending"
  /\ api[c].due <= now
  /\ \E result \in EndpointResults(api[c].request) :
       IF pc[c] = "race"
         THEN /\ Deliver(c, Extract(result))
              /\ api' = [api EXCEPT ![c] =
                    [state |-> "settled", sentAt |-> @.sentAt, due |-> @.due,
                     request |-> @.request, result |-> result]]
         ELSE /\ api' = [api EXCEPT ![c] =
                    [state |-> "late", sentAt |-> @.sentAt, due |-> @.due,
                     request |-> @.request, result |-> result]]
              /\ UNCHANGED <<pc, outcome>>
  /\ UNCHANGED <<uiVars, apiKey, now, args, imageData, timer, calls, io>>

\* EndpointRejects with one retry: a first rejection sends the request again
EndpointRejectsRetry(c, error) ==
  /\ api[c].state = "pending"
  /\ api[c].due <= now
  /\ IF pc[c] = "race" /\ calls[c].endpoint < 2
       THEN /\ calls' = [calls EXCEPT ![c].endpoint = @ + 1]
            /\ UNCHANGED <<pc, outcome, api>>
       ELSE /\ IF pc[c] = "race"
                 THEN /\ Deliver(c, Throw(error))
                      /\ api' = [api EXCEPT ![c] =
                            [state |-> "settled", sentAt |-> @.sentAt,
                             due |-> @.due, request |-> @.request,
                             error |-> error]]
                 ELSE /\ api' = [api EXCEPT ![c] =
                            [state |-> "late", sentAt |-> @.sentAt,
                             due |-> @.due, request |-> @.request,
                             error |-> error]]
                      /\ UNCHANGED <<pc, outcome>>
            /\ UNCHANGED calls
  /\ UNCHANGED <<uiVars, apiKey, now, args, imageData, timer, io>>

\* apiPromise rejects
EndpointRejects(c, error) ==
  /\ api[c].state = "pending"
  /\ api[c].due <= now
  /\ IF pc[c] = "race"
       THEN /\ Deliver(c, Throw(error))
            /\ api' = [api EXCEPT ![c] =
                  [state |-> "settled", sentAt |-> @.sentAt, due |-> @.due,
                   request |-> @.request, error |-> error]]
       ELSE /\ api' = [api EXCEPT ![c] =
                  [state |-> "late", sentAt |-> @.sentAt, due |-> @.due,
                   request |-> @.request, error |-> error]]
            /\ UNCHANGED <<pc, outcome>>
  /\ UNCHANGED <<uiVars, apiKey, now, args, imageData, timer, calls, io>>

\* TimerFires rejecting the caller's promise even after the race was decided
TimerFiresOverrides(c) ==
  /\ timer[c].state = "armed"
  /\ timer[c].due <= now
  /\ Deliver(c, Throw(TimeoutError))
  /\ timer' = [timer EXCEPT ![c].state = IF pc[c] = "race" THEN "fired"
                                                           ELSE "late"]
  /\ UNCHANGED <<uiVars, apiKey, now, args, imageData, api, calls, io>>

\* the setTimeout callback rejects timeoutPromise
TimerFires(c) ==
  /\ timer[c].state = "armed"
  /\ timer[c].due <= now
  /\ IF pc[c] = "race"
       THEN /\ Deliver(c, Throw(TimeoutError))
            /\ timer' = [timer EXCEPT ![c].state = "fired"]
       ELSE /\ timer' = [timer EXCEPT ![c].state = "late"]
            /\ UNCHANGED <<pc, outcome>>
  /\ UNCHANGED <<uiVars, apiKey, now, args, imageData, api, calls, io>>

\* the times at which a started timer or request is due
DueTimes ==
  {timer[c].due : c \in {d \in CallIds : timer[d].state = "armed"}}
  \cup {api[c].due : c \in {d \in CallIds : api[d].state = "pending"}}

\* time passes up to the next due event
AdvanceTime ==
  /\ DueTimes # {}
  /\ \A t \in DueTimes : t > now
  /\ now' = CHOOSE t \in DueTimes : \A u \in DueTimes : t <= u
  /\ UNCHANGED <<uiVars, apiKey, pc, args, imageData, timer, api, outcome, calls,
                 io>>

\* the steps of one invocation
Step(c) ==
  \/ \E u \in ImageUris, e \in EffectNames, p \in CustomPrompts :
        Invoke(c, u, e, p) /\ UNCHANGED uiVars
  \/ \E s \in Statuses : FetchResolves(c, s)
  \/ \E f \in FetchFailures : FetchRejects(c, f)
  \/ BlobResolves(c)
  \/ \E f \in BlobFailures : BlobRejects(c, f)
  \/ \E l \in Latencies : ReaderLoads(c, l)
  \/ ReaderErrors(c)
  \/ EndpointResolves(c)
  \/ \E f \in EndpointFailures : EndpointRejects(c, f)
  \/ TimerFires(c)

\* a single invocation of applyImageEffect
Next == Step(1) \/ AdvanceTime

Spec == Init /\ [][Next]_vars

(***************************************************************************)
(* Vocabulary of the properties                                            *)
(***************************************************************************)
Resolved(c) == outcome[c].status = "resolved"

Rejected(c) == outcome[c].status = "rejected"

\* the caller received a GeminiError with this code
FailedWith(c, code) ==
  /\ Rejected(c)
  /\ Has(outcome[c].error, "name") /\ outcome[c].error.name = "GeminiError"
  /\ Has(outcome[c].error, "code") /\ outcome[c].error.code = code

\* the codes of the GeminiErrors in the chain of causes of an error
RECURSIVE RaisedKinds(_)
RaisedKinds(e) ==
  (IF Has(e, "name") /\ Has(e, "code") /\ e.name = "GeminiError"
     THEN {e.code} ELSE {})
  \cup (IF Has(e, "originalError") THEN RaisedKinds(e.originalError) ELSE {})

CustomBlank(c) ==
  /\ ToLowerCase(args[c].effectName) = "custom"
  /\ Trim(args[c].customPrompt) = <<>>

KeyInvalid == Falsy(apiKey) \/ apiKey = PLACEHOLDER_KEY

\* the endpoint answered, while the race was open, with this kind of value
EndpointWon(c) == api[c].state = "settled"

HasCandidates(result) ==
  /\ Has(result, "response")
  /\ Has(result.response, "candidates")
  /\ Len(result.response.candidates) > 0

\* the parts of the first candidate, <<>> when it has no part list
FirstParts(result) ==
  LET first == result.response.candidates[1]
  IN  IF Has(first, "content") /\ Has(first.content, "parts")
        THEN first.content.parts
        ELSE <<>>

ImageIndexes(result) ==
  {i \in 1..Len(FirstParts(result)) : Has(FirstParts(result)[i], "inlineData")}

HasImage(result) == HasCandidates(result) /\ ImageIndexes(result) # {}

DataUri(part) ==
  <<"data:", part.inlineData.mimeType, ";base64,">> \o part.inlineData.data

FirstImage(result) ==
  FirstParts(result)[CHOOSE i \in ImageIndexes(result) :
                       \A j \in ImageIndexes(result) : i <= j]

(***************************************************************************)
(* Two invocations in flight together                                      *)
(***************************************************************************)
\* the inputs and the endpoint behaviour of two invocations in flight together
ConcEffectNames == {"Custom", "enhance"}

ConcPrompts == {<<"make it blue">>}

\* an answer with no candidate, or with one candidate of one image part
ConcResult(result) ==
  /\ Has(result, "response") /\ Has(result.response, "candidates")
  /\ \/ result.response.candidates = <<>>
     \/ /\ Len(result.response.candidates) = 1
        /\ Len(FirstParts(result)) = 1
        /\ HasImage(result)

ConcFailures == {Error(<<"Network Error">>)}

\* a caller invokes applyImageEffect on an image no other call is using
InvokeConc(c, imageUri, effectName, customPrompt) ==
  /\ \A d \in CallIds \ {c} : pc[d] # "idle" => args[d].imageUri # imageUri
  /\ Invoke(c, imageUri, effectName, customPrompt)
  /\ UNCHANGED uiVars

\* the endpoint answers the request of call c
EndpointResolvesConc(c) ==
  /\ EndpointResolves(c)
  /\ ConcResult(api'[c].result)

\* the steps of one of two invocations on different images
StepConc(c) ==
  \/ \E u \in {ImageA, ImageB}, e \in ConcEffectNames, p \in ConcPrompts :
        InvokeConc(c, u, e, p)
  \/ \E s \in Statuses : FetchResolves(c, s)
  \/ \E f \in FetchFailures : FetchRejects(c, f)
  \/ BlobResolves(c)
  \/ \E f \in BlobFailures : BlobRejects(c, f)
  \/ \E l \in Latencies : ReaderLoads(c, l)
  \/ ReaderErrors(c)
  \/ EndpointResolvesConc(c)
  \/ \E f \in ConcFailures : EndpointRejects(c, f)
  \/ TimerFires(c)

\* two invocations of applyImageEffect, interleaved at every await
NextConc == StepConc(1) \/ StepConc(2) \/ AdvanceTime

SpecConc == Init /\ [][NextConc]_vars

(***************************************************************************)
(* The editor screen (src/app/(tabs)/editor.tsx)                           *)
(***************************************************************************)
\* const displayImage = processedImage || selectedImage
DisplayImage ==
  IF Truthy(editor.processedImage) THEN editor.processedImage
                                   ELSE editor.selectedImage

\* the body of the [imageUri] effect and of the focus listener
ImageFromParams(e, imageUri) ==
  IF Truthy(imageUri) /\ imageUri # e.lastImageUriRef
    THEN [e EXCEPT !.selectedImage = imageUri, !.processedImage = NULL,
                   !.lastImageUriRef = imageUri, !.customPrompt = <<>>]
    ELSE e

\* the text handleGeminiError puts in errorMessage
ErrorMessageFor(error) ==
  IF Has(error, "name") /\ error.name = "GeminiError"
    THEN CASE error.code = "MISSING_API_KEY" ->
                <<"API key is not configured", "\n\n",
                  "Please add your Gemini API key in the config.js file.">>
           [] error.code = "EMPTY_PROMPT" ->
                <<"Please enter a text prompt", "\n\n",
                  "Describe how you want to modify your image.">>
           [] error.code = "NETWORK_ERROR" ->
                <<"Network connection error", "\n\n",
                  "Please check your internet connection and try again.">>
           [] error.code = "TIMEOUT" ->
                <<"Request timed out", "\n\n",
                  "The AI service is taking too long to respond. Please try again later.">>
           [] error.code = "RATE_LIMIT" ->
                <<"API rate limit exceeded", "\n\n",
                  "You've reached the limit of requests. Please try again later.">>
           [] error.code = "AUTH_ERROR" ->
                <<"Authentication error", "\n\n",
                  "Please check your API key in the config.js file.">>
           [] error.code \in {"IMAGE_PROCESSING_ERROR",
                              "IMAGE_CONVERSION_ERROR"} ->
                <<"Image processing error", "\n\n",
                  "The image may be too large or in an unsupported format. Try a different image.">>
           [] error.code \in {"NO_CANDIDATES", "NO_IMAGE_RETURNED"} ->
                <<"AI couldn't process your request", "\n\n",
                  "Try a different prompt or image, or try again later.">>
           [] OTHER ->
                (IF HasMessage(error) THEN error.message
                                      ELSE <<"An error occurred">>)
                \o <<"\n\n",
                     "Please try again or use a different image/prompt.">>
    ELSE IF HasMessage(error)
      THEN error.message
      ELSE <<"An unexpected error occurred. Please try again.">>

\* the promise applyCustomPrompt awaits has settled: its continuation is the
\* next thing to run (a microtask)
ContinuationReady ==
  editor.awaiting # 0 /\ pc[editor.awaiting] = "done"

\* the editor tab is in front and neither the error modal, the alert nor the
\* gallery picker is over it
EditorFree ==
  /\ nav.tab = "editor"
  /\ ~editor.showErrorModal /\ ~editor.alert /\ ~editor.picking
  /\ ~ContinuationReady

\* the content container is rendered and the loading overlay is not over it
ContentPressable == EditorFree /\ Truthy(DisplayImage) /\ ~editor.isProcessing

\* the gallery images the picker can return
GalleryImages == {<<ImageB>>}

\* the images the camera screen can hand over
CameraImages == {<<ImageA>>, <<ImageB>>}

\* the texts the user types in the prompt input
TypedPrompts == {<<>>, <<" ", "\n">>, <<" ", "make it blue", " ">>}

\* the camera screen navigates to the editor with params {imageUri}
ReceiveImage(imageUri) ==
  /\ nav.tab = "camera" /\ ~ContinuationReady
  /\ nav' = [tab |-> "editor", imageUri |-> imageUri]
  /\ editor' = ImageFromParams(editor, imageUri)
  /\ UNCHANGED <<serviceVars, cameraVars>>

\* the user presses the editor tab: the focus listener runs
FocusEditor ==
  /\ nav.tab = "camera" /\ ~ContinuationReady
  /\ nav' = [nav EXCEPT !.tab = "editor"]
  /\ editor' = ImageFromParams(editor, nav.imageUri)
  /\ UNCHANGED <<serviceVars, cameraVars>>

\* the user presses the camera tab
FocusCamera ==
  /\ EditorFree
  /\ nav' = [nav EXCEPT !.tab = "camera"]
  /\ UNCHANGED <<serviceVars, cameraVars, editor>>

\* "Replace" or "Select from Gallery": pickImage up to its await
PickImage ==
  /\ EditorFree
  /\ Truthy(DisplayImage) => ~editor.isProcessing
  /\ editor' = [editor EXCEPT !.picking = TRUE]
  /\ UNCHANGED <<serviceVars, cameraVars, nav>>

\* the picker returned an asset
PickerReturns(uri) ==
  /\ editor.picking /\ ~ContinuationReady
  /\ editor' = [editor EXCEPT !.picking = FALSE, !.selectedImage = uri,
                              !.processedImage = NULL,
                              !.lastImageUriRef = uri]
  /\ UNCHANGED <<serviceVars, cameraVars, nav>>

\* the picker was cancelled
PickerCancels ==
  /\ editor.picking /\ ~ContinuationReady
  /\ editor' = [editor EXCEPT !.picking = FALSE]
  /\ UNCHANGED <<serviceVars, cameraVars, nav>>

\* onChangeText of the prompt input (editable while not processing)
SetCustomPrompt(text) ==
  /\ ContentPressable
  /\ text # editor.customPrompt
  /\ editor' = [editor EXCEPT !.customPrompt = text]
  /\ UNCHANGED <<serviceVars, cameraVars, nav>>

\* applyCustomPrompt whose finally block is skipped when the call failed
ApplyCustomPromptDoneNoFinally ==
  /\ ContinuationReady
  /\ LET c == editor.awaiting
     IN  IF outcome[c].status = "resolved"
           THEN editor' = [editor EXCEPT
                  !.processedImage = outcome[c].value, !.alert = TRUE,
                  !.isProcessing = FALSE, !.currentEffect = NULL,
                  !.awaiting = 0]
           ELSE editor' = [editor EXCEPT
                  !.errorMessage = ErrorMessageFor(outcome[c].error),
                  !.showErrorModal = TRUE, !.awaiting = 0]
  /\ UNCHANGED <<serviceVars, cameraVars, nav>>

\* applyCustomPrompt after its await: the rest of try, or catch, then finally
ApplyCustomPromptDone ==
  /\ ContinuationReady
  /\ LET c == editor.awaiting
     IN  IF outcome[c].status = "resolved"
           THEN editor' = [editor EXCEPT
                  !.processedImage = outcome[c].value, !.alert = TRUE,
                  !.isProcessing = FALSE, !.currentEffect = NULL,
                  !.awaiting = 0]
         ELSE IF IsNullish(outcome[c].error)
           THEN editor' = [editor EXCEPT
                  !.isProcessing = FALSE, !.currentEffect = NULL,
                  !.awaiting = 0]
           ELSE editor' = [editor EXCEPT
                  !.errorMessage = ErrorMessageFor(outcome[c].error),
                  !.showErrorModal = TRUE,
                  !.isProcessing = FALSE, !.currentEffect = NULL,
                  !.awaiting = 0]
  /\ UNCHANGED <<serviceVars, cameraVars, nav>>

\* applyCustomPrompt without the check of the prompt
ApplyCustomPromptNoPromptCheck(c) ==
  /\ ContentPressable
  /\ pc[c] = "idle" /\ \A d \in CallIds : pc[d] = "idle" => c <= d
  /\ IF ~Truthy(editor.selectedImage)
       THEN /\ editor' = [editor EXCEPT
                 !.errorMessage = <<"Please select an image first">>,
                 !.showErrorModal = TRUE]
            /\ UNCHANGED serviceVars
       ELSE /\ editor' = [editor EXCEPT !.isProcessing = TRUE,
                                        !.currentEffect = <<"Custom">>,
                                        !.awaiting = c]
            /\ Invoke(c, editor.selectedImage[1], "Custom",
                      editor.customPrompt)
  /\ UNCHANGED <<cameraVars, nav>>

\* "Transform": applyCustomPrompt up to `await applyImageEffect(...)'
ApplyCustomPrompt(c) ==
  /\ ContentPressable
  /\ pc[c] = "idle" /\ \A d \in CallIds : pc[d] = "idle" => c <= d
  /\ IF ~Truthy(editor.selectedImage)
       THEN /\ editor' = [editor EXCEPT
                 !.errorMessage = <<"Please select an image first">>,
                 !.showErrorModal = TRUE]
            /\ UNCHANGED serviceVars
     ELSE IF Trim(editor.customPrompt) = <<>>
       THEN /\ editor' = [editor EXCEPT
                 !.errorMessage = <<"Please enter a text prompt for the AI">>,
                 !.showErrorModal = TRUE]
            /\ UNCHANGED serviceVars
       ELSE /\ editor' = [editor EXCEPT !.isProcessing = TRUE,
                                        !.currentEffect = <<"Custom">>,
                                        !.awaiting = c]
            /\ Invoke(c, editor.selectedImage[1], "Custom",
                      editor.customPrompt)
  /\ UNCHANGED <<cameraVars, nav>>

\* resetImage that also drops the selected image
ResetImageDropsSelected ==
  /\ ContentPressable
  /\ Truthy(editor.processedImage)
  /\ editor' = [editor EXCEPT !.processedImage = NULL,
                              !.selectedImage = NULL]
  /\ UNCHANGED <<serviceVars, cameraVars, nav>>

\* "Undo" (rendered when processedImage is set): resetImage
ResetImage ==
  /\ ContentPressable
  /\ Truthy(editor.processedImage)
  /\ editor' = IF Truthy(editor.processedImage)
                  /\ Truthy(editor.selectedImage)
                 THEN [editor EXCEPT !.processedImage = NULL]
                 ELSE editor
  /\ UNCHANGED <<serviceVars, cameraVars, nav>>

\* "Clear": clearImage
ClearImage ==
  /\ ContentPressable
  /\ editor' = [editor EXCEPT !.selectedImage = NULL,
                              !.processedImage = NULL,
                              !.customPrompt = <<>>,
                              !.lastImageUriRef = NULL]
  /\ nav' = [nav EXCEPT !.tab = "camera"]
  /\ UNCHANGED <<serviceVars, cameraVars>>

\* "OK" of the error modal, or its onRequestClose: closeErrorModal
CloseErrorModal ==
  /\ editor.showErrorModal /\ ~ContinuationReady
  /\ editor' = [editor EXCEPT !.showErrorModal = FALSE,
                              !.errorMessage = NULL]
  /\ UNCHANGED <<serviceVars, cameraVars, nav>>

\* the user dismisses the "AI Modification Applied" alert
DismissAlert ==
  /\ editor.alert /\ ~ContinuationReady
  /\ editor' = [editor EXCEPT !.alert = FALSE]
  /\ UNCHANGED <<serviceVars, cameraVars, nav>>

\* what the file system and the endpoint do to the editor's requests
EditorFailures == {Error(<<"Network Error">>), Nullish}

EditorLatencies == {10000, 61000}

\* an event of the invocation the editor started
ServiceEvent(c) ==
  \/ \E s \in Statuses : ~ContinuationReady /\ FetchResolves(c, s)
  \/ \E f \in FetchFailures : ~ContinuationReady /\ FetchRejects(c, f)
  \/ ~ContinuationReady /\ BlobResolves(c)
  \/ \E f \in BlobFailures : ~ContinuationReady /\ BlobRejects(c, f)
  \/ \E l \in EditorLatencies : ~ContinuationReady /\ ReaderLoads(c, l)
  \/ ~ContinuationReady /\ ReaderErrors(c)
  \/ ~ContinuationReady /\ EndpointResolvesConc(c)
  \/ \E f \in EditorFailures : ~ContinuationReady /\ EndpointRejects(c, f)
  \/ ~ContinuationReady /\ TimerFires(c)

NextEditor ==
  \/ \E u \in CameraImages : ReceiveImage(u)
  \/ FocusEditor
  \/ FocusCamera
  \/ PickImage
  \/ \E u \in GalleryImages : PickerReturns(u)
  \/ PickerCancels
  \/ \E t \in TypedPrompts : SetCustomPrompt(t)
  \/ \E c \in CallIds : ApplyCustomPrompt(c)
  \/ ApplyCustomPromptDone
  \/ ResetImage
  \/ ClearImage
  \/ CloseErrorModal
  \/ DismissAlert
  \/ \E c \in CallIds : ServiceEvent(c)
  \/ ~ContinuationReady /\ AdvanceTime

SpecEditor == Init /\ [][NextEditor]_vars

(***************************************************************************)
(* The camera screen (src/unnamed/part_000) and CameraView                 *)
(* (src/components/CameraView.tsx)                                         *)
(***************************************************************************)
\* the state of an unmounted component is discarded; once its permission
\* request, its timer and its launches have completed nothing of it is left
Collect(v) ==
  [k \in Keys |->
     IF v[k].isMounted \/ v[k].permission = "none" THEN v[k]
     ELSE IF v[k].permission # "pending" /\ v[k].timer # "armed"
             /\ v[k].inFlight = 0
       THEN GoneView
       ELSE [v[k] EXCEPT !.hasPermission = "null", !.capturedImage = NULL,
                         !.isCapturing = FALSE]]

\* the render of CameraScreen with state cam: the CameraView of another key
\* is unmounted (its effect cleanup clears isMounted), the one of cam.key is
\* mounted if it is not yet; nothing is rendered without media permission
Commit(v, cam) ==
  Collect([k \in Keys |->
     IF cam.hasPermission = "true" /\ k = cam.key
       THEN IF v[k].permission = "none" THEN MountedView(cam.isFrontCamera)
                                         ELSE v[k]
       ELSE [v[k] EXCEPT !.isMounted = FALSE]])

\* the callback of useFocusEffect
FocusEffect(cam) ==
  IF ~Truthy(cam.capturedImage) THEN [cam EXCEPT !.key = @ + 1] ELSE cam

\* the native camera is over the application
CameraOpen == \E k \in Keys : view[k].inFlight > 0

\* the camera tab is in front and nothing is over it
CameraFree ==
  /\ nav.tab = "camera"
  /\ camera.hasPermission = "true"
  /\ ~camera.alert
  /\ ~CameraOpen

\* the URIs the native camera returns
CapturedUris == {<<ImageA>>}

\* the placeholder launchCamera falls back to
PlaceholderUri(front) ==
  IF front THEN <<"https://picsum.photos/seed/selfie/500/800">>
           ELSE <<"https://picsum.photos/seed/landscape/500/800">>

\* MediaLibrary.requestPermissionsAsync resolved
MediaPermissionAnswered(status) ==
  /\ camera.hasPermission = "null"
  /\ LET cam == [camera EXCEPT !.hasPermission =
                    IF status = "granted" THEN "true" ELSE "false"]
     IN  /\ camera' = cam
         /\ view' = Commit(view, cam)
  /\ UNCHANGED <<serviceVars, editor, nav, library>>

\* "Flip" (rendered without a captured image): toggleCamera
ToggleCamera ==
  /\ CameraFree
  /\ ~Truthy(camera.capturedImage)
  /\ camera.key < MaxKey
  /\ LET cam == [camera EXCEPT !.capturedImage = NULL,
                               !.isFrontCamera = ~@, !.key = @ + 1]
     IN  /\ camera' = cam
         /\ view' = Commit(view, cam)
  /\ UNCHANGED <<serviceVars, editor, nav, library>>

\* "Retake" (rendered with a captured image): retakePicture, then the focus
\* effect that runs again because capturedImage changed
RetakePicture ==
  /\ CameraFree
  /\ Truthy(camera.capturedImage)
  /\ camera.key + 2 <= MaxKey
  /\ LET cam == [camera EXCEPT !.capturedImage = NULL, !.key = @ + 1]
     IN  /\ camera' = FocusEffect(cam)
         /\ view' = Commit(Commit(view, cam), FocusEffect(cam))
  /\ UNCHANGED <<serviceVars, editor, nav, library>>

\* goToEditor navigating before the image is saved
GoToEditorNavigatesFirst ==
  /\ CameraFree
  /\ Truthy(camera.capturedImage)
  /\ Len(camera.saving) < MaxSaves
  /\ camera' = [camera EXCEPT !.saving = Append(@, camera.capturedImage)]
  /\ nav' = [tab |-> "editor", imageUri |-> camera.capturedImage]
  /\ editor' = ImageFromParams(editor, camera.capturedImage)
  /\ UNCHANGED <<serviceVars, view, library>>

\* "Use Photo" (rendered with a captured image): goToEditor up to
\* `await MediaLibrary.saveToLibraryAsync(capturedImage)'
GoToEditor ==
  /\ CameraFree
  /\ Truthy(camera.capturedImage)
  /\ Len(camera.saving) < MaxSaves
  /\ camera' = IF Truthy(camera.capturedImage)
                 THEN [camera EXCEPT
                         !.saving = Append(@, camera.capturedImage)]
                 ELSE camera
  /\ UNCHANGED <<serviceVars, editor, nav, view, library>>

\* the sequence without its i-th element
Without(seq, i) ==
  SubSeq(seq, 1, i - 1) \o SubSeq(seq, i + 1, Len(seq))

\* the save resolved: goToEditor navigates with the image it captured and
\* clears capturedImage; the editor receives the route params
SaveSucceeds(i) ==
  /\ i \in 1..Len(camera.saving)
  /\ library' = library \cup {camera.saving[i]}
  /\ nav' = [tab |-> "editor", imageUri |-> camera.saving[i]]
  /\ editor' = ImageFromParams(editor, camera.saving[i])
  /\ camera' = [camera EXCEPT !.capturedImage = NULL,
                              !.saving = Without(@, i)]
  /\ UNCHANGED <<serviceVars, view>>

\* the save rejected: the catch block shows the alert
SaveFails(i) ==
  /\ i \in 1..Len(camera.saving)
  /\ camera' = [camera EXCEPT !.alert = TRUE, !.saving = Without(@, i)]
  /\ UNCHANGED <<serviceVars, editor, nav, view, library>>

\* the user dismisses the "Failed to save image" alert
DismissSaveAlert ==
  /\ camera.alert
  /\ camera' = [camera EXCEPT !.alert = FALSE]
  /\ UNCHANGED <<serviceVars, editor, nav, view, library>>

\* the user comes back to the camera tab: the focus effect runs
ReturnToCamera ==
  /\ nav.tab = "editor"
  /\ FocusEffect(camera).key <= MaxKey
  /\ nav' = [nav EXCEPT !.tab = "camera"]
  /\ camera' = FocusEffect(camera)
  /\ view' = Commit(view, FocusEffect(camera))
  /\ UNCHANGED <<serviceVars, editor, library>>

\* the user presses the editor tab
LeaveCamera ==
  /\ nav.tab = "camera" /\ ~camera.alert /\ ~CameraOpen
  /\ FocusEditor

\* launchCamera as the closure of a render with this isCapturing sees it, up
\* to `await ImagePicker.launchCameraAsync(...)'
LaunchCamera(v, isCapturing) ==
  IF isCapturing
    THEN v
    ELSE [v EXCEPT !.isCapturing = TRUE, !.inFlight = @ + 1]

\* ImagePicker.requestCameraPermissionsAsync resolved
PermissionAnswered(k, status) ==
  /\ view[k].permission = "pending"
  /\ view' = Collect([view EXCEPT ![k] =
       IF ~view[k].isMounted
         THEN [@ EXCEPT !.permission = status]
         ELSE [@ EXCEPT !.permission = status,
                        !.hasPermission =
                           IF status = "granted" THEN "true" ELSE "false",
                        !.timer =
                           IF status = "granted" THEN "armed" ELSE @]])
  /\ UNCHANGED <<serviceVars, editor, nav, camera, library>>

\* ImagePicker.requestCameraPermissionsAsync rejected
PermissionFails(k) ==
  /\ view[k].permission = "pending"
  /\ view' = Collect([view EXCEPT ![k] =
       [@ EXCEPT !.permission = "failed",
                 !.hasPermission = IF view[k].isMounted THEN "false" ELSE @]])
  /\ UNCHANGED <<serviceVars, editor, nav, camera, library>>

\* the launch timer launching the camera whether or not the view is mounted
LaunchTimerFiresUnmounted(k) ==
  /\ view[k].timer = "armed"
  /\ view' = Collect([view EXCEPT ![k] =
       LaunchCamera([@ EXCEPT !.timer = "fired"], FALSE)])
  /\ UNCHANGED <<serviceVars, editor, nav, camera, library>>

\* the setTimeout callback of the mount effect: launchCamera of the first
\* render (isCapturing false) if the view is still mounted
LaunchTimerFires(k) ==
  /\ view[k].timer = "armed"
  /\ view' = Collect([view EXCEPT ![k] =
       IF view[k].isMounted
         THEN LaunchCamera([@ EXCEPT !.timer = "fired"], FALSE)
         ELSE [@ EXCEPT !.timer = "fired"]])
  /\ UNCHANGED <<serviceVars, editor, nav, camera, library>>

\* "Take Photo" (rendered with permission, without a captured image, while
\* not capturing): launchCamera of the current render
TakePhoto(k) ==
  /\ CameraFree
  /\ view[k].isMounted
  /\ view[k].hasPermission = "true"
  /\ ~Truthy(view[k].capturedImage)
  /\ ~view[k].isCapturing
  /\ view' = [view EXCEPT ![k] = LaunchCamera(@, view[k].isCapturing)]
  /\ UNCHANGED <<serviceVars, editor, nav, camera, library>>

\* the end of a launchCamera call that produced this image: the state of a
\* mounted view is set, and onCaptureComplete sets capturedImage of the screen
Captured(k, uri) ==
  /\ view' = Collect([view EXCEPT ![k] =
       [@ EXCEPT !.inFlight = @ - 1, !.isCapturing = FALSE,
                 !.capturedImage = uri]])
  /\ camera' = [camera EXCEPT !.capturedImage = uri]

\* launchCameraAsync resolved with a photo
LaunchReturns(k, uri) ==
  /\ view[k].inFlight > 0
  /\ Captured(k, uri)
  /\ UNCHANGED <<serviceVars, editor, nav, library>>

\* launchCameraAsync resolved with canceled
LaunchCancelled(k) ==
  /\ view[k].inFlight > 0
  /\ view' = Collect([view EXCEPT ![k] =
       [@ EXCEPT !.inFlight = @ - 1, !.isCapturing = FALSE]])
  /\ UNCHANGED <<serviceVars, editor, nav, camera, library>>

\* launchCameraAsync rejected: the catch block falls back to the placeholder
LaunchThrows(k) ==
  /\ view[k].inFlight > 0
  /\ Captured(k, PlaceholderUri(view[k].front))
  /\ UNCHANGED <<serviceVars, editor, nav, library>>

NextCamera ==
  \/ \E s \in {"granted", "denied"} : MediaPermissionAnswered(s)
  \/ ToggleCamera
  \/ RetakePicture
  \/ GoToEditor
  \/ \E i \in 1..MaxSaves : SaveSucceeds(i)
  \/ \E i \in 1..MaxSaves : SaveFails(i)
  \/ DismissSaveAlert
  \/ ReturnToCamera
  \/ LeaveCamera
  \/ \E k \in Keys, s \in {"granted", "denied"} : PermissionAnswered(k, s)
  \/ \E k \in Keys : PermissionFails(k)
  \/ \E k \in Keys : LaunchTimerFires(k)
  \/ \E k \in Keys : TakePhoto(k)
  \/ \E k \in Keys, u \in CapturedUris : LaunchReturns(k, u)
  \/ \E k \in Keys : LaunchCancelled(k)
  \/ \E k \in Keys : LaunchThrows(k)

\* the camera screen never reads the credential of the service
InitCamera == Init /\ apiKey = "AIzaSy-key"

SpecCamera == InitCamera /\ [][NextCamera]_vars

\* the permission dialog is answered and a started timer fires
CameraFairness ==
  \A k \in Keys :
    /\ WF_vars(\E s \in {"granted", "denied"} : PermissionAnswered(k, s))
    /\ WF_vars(LaunchTimerFires(k))

\* the CameraView with the steps of the screen that mount and unmount it
NextView ==
  \/ \E s \in {"granted", "denied"} : MediaPermissionAnswered(s)
  \/ ToggleCamera
  \/ RetakePicture
  \/ ReturnToCamera
  \/ LeaveCamera
  \/ \E k \in Keys, s \in {"granted", "denied"} : PermissionAnswered(k, s)
  \/ \E k \in Keys : PermissionFails(k)
  \/ \E k \in Keys : LaunchTimerFires(k)
  \/ \E k \in Keys : TakePhoto(k)
  \/ \E k \in Keys, u \in CapturedUris : LaunchReturns(k, u)
  \/ \E k \in Keys : LaunchCancelled(k)
  \/ \E k \in Keys : LaunchThrows(k)

SpecViewFair == InitCamera /\ [][NextView]_vars /\ CameraFairness

\* what the runtime guarantees of a single invocation: the clock runs, a timer
\* that is due fires, and an endpoint request whose answer is due is answered
\* (a request that is never answered is one whose latency exceeds the timer).
\* Nothing is assumed of fetch, response.blob() or the FileReader.
ServiceFairness ==
  /\ WF_vars(AdvanceTime)
  /\ WF_vars(TimerFires(1))
  /\ WF_vars(EndpointResolves(1) \/ \E f \in EndpointFailures :
                                      EndpointRejects(1, f))

\* a single invocation with a fair clock, timer and endpoint
SpecFair == Init /\ [][Next]_vars /\ ServiceFairness

(***************************************************************************)
(* Properties                                                              *)
(***************************************************************************)
\* C1: a call with a source image whose effect name is "custom" in any letter
\* case and whose custom prompt is empty or whitespace-only fails with
\* EMPTY_PROMPT, and neither the image fetch nor the endpoint is invoked.
C1_CustomBlankFailsEmptyPrompt ==
  \A c \in CallIds :
    (pc[c] # "idle" /\ ~Falsy(args[c].imageUri) /\ CustomBlank(c)) =>
      /\ FailedWith(c, "EMPTY_PROMPT")
      /\ calls[c].fetch = 0
      /\ calls[c].endpoint = 0

\* C2: once the request is dispatched the first of {endpoint, 60 s timer} to
\* complete decides the call: the timer firing first gives TIMEOUT (so does an
\* endpoint that needs longer than the timer); an endpoint answering first
\* with an image part gives success with an image of that answer.
C2_RaceDecidesOutcome ==
  \A c \in CallIds :
    (pc[c] = "done" /\ calls[c].endpoint > 0) =>
      /\ timer[c].due = api[c].sentAt + 60000
      /\ (timer[c].state = "fired") # EndpointWon(c)
      /\ timer[c].state = "fired" => FailedWith(c, "TIMEOUT")
      /\ api[c].due > timer[c].due => FailedWith(c, "TIMEOUT")
      /\ api[c].due < timer[c].due => EndpointWon(c)
      /\ (EndpointWon(c) /\ Has(api[c], "result") /\ HasImage(api[c].result))
           => /\ Resolved(c)
              /\ \E i \in ImageIndexes(api[c].result) :
                    outcome[c].value = DataUri(FirstParts(api[c].result)[i])

\* the endpoint answered with an image after 61 s: the call failed with TIMEOUT
C2_Witness ==
  \E c \in CallIds :
    /\ pc[c] = "done" /\ timer[c].state = "fired"
    /\ FailedWith(c, "TIMEOUT")
    /\ api[c].state = "late" /\ api[c].due = timer[c].due + 1000
    /\ Has(api[c], "result") /\ HasImage(api[c].result)

\* C3: every failure reaches the caller as a GeminiError whose code is one of
\* the twelve fixed kinds, whatever value was raised.
C3_EveryFailureClassified ==
  \A c \in CallIds :
    (pc[c] = "done" /\ Rejected(c)) =>
      /\ Has(outcome[c].error, "name")
      /\ outcome[c].error.name = "GeminiError"
      /\ Has(outcome[c].error, "code")
      /\ outcome[c].error.code \in ErrorCodes

\* C4: a GeminiError of kind K raised by any stage (validation, image fetcher,
\* response extractor) reaches the caller with kind K.
C4_ClassifiedKindKept ==
  \A c \in CallIds :
    (pc[c] = "done" /\ Rejected(c)) =>
      \A k \in RaisedKinds(outcome[c].error) : FailedWith(c, k)

\* C5: with the credential absent or equal to the placeholder, no call invokes
\* the image fetch or the endpoint, and every call with a source URI whose
\* prompt is not rejected fails with MISSING_API_KEY.
C5_MissingApiKey ==
  KeyInvalid =>
    \A c \in CallIds :
      /\ calls[c].fetch = 0
      /\ calls[c].endpoint = 0
      /\ (/\ pc[c] # "idle"
          /\ ~Falsy(args[c].imageUri)
          /\ ~(args[c].effectName = "Custom"
                /\ Trim(args[c].customPrompt) = <<>>))
           => (pc[c] = "done" /\ FailedWith(c, "MISSING_API_KEY"))

\* the placeholder key: a call with an image and a prompt failed on the key
C5_Witness ==
  /\ apiKey = PLACEHOLDER_KEY
  /\ \E c \in CallIds :
       /\ pc[c] = "done"
       /\ args[c].imageUri = ImageA
       /\ args[c].effectName = "Custom"
       /\ Trim(args[c].customPrompt) # <<>>
       /\ FailedWith(c, "MISSING_API_KEY")

\* C6: a call that ends with MISSING_IMAGE, EMPTY_PROMPT or MISSING_API_KEY
\* has not fetched the image, called the endpoint or started the timer.
C6_ValidationBeforeNetwork ==
  \A c \in CallIds :
    (\/ FailedWith(c, "MISSING_IMAGE")
     \/ FailedWith(c, "EMPTY_PROMPT")
     \/ FailedWith(c, "MISSING_API_KEY"))
      => /\ calls[c].fetch = 0
         /\ calls[c].endpoint = 0
         /\ calls[c].timer = 0
         /\ timer[c].state = "unset"
         /\ api[c].state = "none"

\* a blank custom prompt was rejected although image and key were fine
C6_Witness ==
  /\ ~KeyInvalid
  /\ \E c \in CallIds :
       /\ pc[c] = "done"
       /\ args[c].imageUri = ImageB
       /\ FailedWith(c, "EMPTY_PROMPT")
       /\ calls[c].fetch = 0

\* C7: when the image was retrieved with a success status but reading or
\* encoding it fails (blob() rejects, the FileReader reports an error), the
\* caller receives IMAGE_CONVERSION_ERROR.
C7_ReadFailureIsConversionError ==
  \A c \in CallIds :
    (/\ pc[c] = "done"
     /\ Ok(io[c].status)
     /\ (io[c].blob = "rejected" \/ io[c].reader = "error"))
      => FailedWith(c, "IMAGE_CONVERSION_ERROR")

\* C8: when the retrieval reports a non-success status the image fetcher
\* fails with IMAGE_PROCESSING_ERROR (not the IMAGE_CONVERSION_ERROR of read
\* failures), and the endpoint is not called.
C8_BadStatusIsProcessingError ==
  \A c \in CallIds :
    (pc[c] = "done" /\ io[c].status # 0 /\ ~Ok(io[c].status)) =>
      /\ Rejected(c)
      /\ RaisedKinds(outcome[c].error) = {"IMAGE_PROCESSING_ERROR"}
      /\ calls[c].endpoint = 0

\* C9: when the answer that wins the race has a first candidate with a part
\* carrying inlineData, the call succeeds with "data:" + mimeType + ";base64,"
\* + data of the first such part; every success value is built that way.
C9_FirstImagePartReturned ==
  \A c \in CallIds :
    /\ (EndpointWon(c) /\ Has(api[c], "result") /\ HasImage(api[c].result))
         => /\ Resolved(c)
            /\ outcome[c].value = DataUri(FirstImage(api[c].result))
    /\ Resolved(c)
         => /\ EndpointWon(c) /\ Has(api[c], "result")
            /\ HasImage(api[c].result)
            /\ outcome[c].value[1] = "data:"
            /\ outcome[c].value[3] = ";base64,"

\* the answer had a text part, two image parts and a second candidate
C9_Witness ==
  \E c \in CallIds :
    /\ Resolved(c)
    /\ Len(api[c].result.response.candidates) = 2
    /\ ImageIndexes(api[c].result) = {2, 3}
    /\ outcome[c].value =
         <<"data:", "image/png", ";base64,", "edited:", "QUFB">>

\* C10: an answer that wins the race without an inline image fails with
\* NO_CANDIDATES when the candidate list is absent or empty and with
\* NO_IMAGE_RETURNED when the first candidate has no part with inlineData
\* (its part list may be empty or missing); never with UNKNOWN_ERROR.
C10_NoImageIsContentError ==
  \A c \in CallIds :
    (/\ EndpointWon(c) /\ Has(api[c], "result")
     /\ Has(api[c].result, "response")
     /\ ~HasImage(api[c].result))
      => IF HasCandidates(api[c].result)
           THEN FailedWith(c, "NO_IMAGE_RETURNED")
           ELSE FailedWith(c, "NO_CANDIDATES")

\* the rules of the classifier, in the order of the claim
ClassifierRules ==
  <<[kind |-> "NETWORK_ERROR", needles |-> {"Network Error"}],
    [kind |-> "TIMEOUT", needles |-> {"timed out"}],
    [kind |-> "RATE_LIMIT", needles |-> {"quota", "rate limit", "429"}],
    [kind |-> "AUTH_ERROR", needles |-> {"authentication", "API key", "401"}]>>

MessageOf(e) == IF Has(e, "message") THEN e.message ELSE <<>>

MatchingRules(e) ==
  {i \in 1..Len(ClassifierRules) :
     \E n \in ClassifierRules[i].needles : Includes(MessageOf(e), n)}

FirstRuleKind(e) ==
  IF MatchingRules(e) = {}
    THEN "UNKNOWN_ERROR"
    ELSE ClassifierRules[CHOOSE i \in MatchingRules(e) :
                           \A j \in MatchingRules(e) : i <= j].kind

Unclassified(e) == ~(Has(e, "name") /\ e.name = "GeminiError")

\* the failure was delivered with this kind and keeps the raised value as cause
ClassifiedAs(c, kind, raised) ==
  /\ FailedWith(c, kind)
  /\ Has(outcome[c].error, "originalError")
  /\ outcome[c].error.originalError = raised

\* C11: every raised failure that is not already classified gets the kind of
\* the first matching rule in the order NETWORK_ERROR, TIMEOUT, RATE_LIMIT,
\* AUTH_ERROR, else UNKNOWN_ERROR, and is kept as the cause.
C11_FirstMatchingRule ==
  \A c \in CallIds :
    /\ (EndpointWon(c) /\ Has(api[c], "error") /\ Unclassified(api[c].error))
         => ClassifiedAs(c, FirstRuleKind(api[c].error), api[c].error)
    /\ (pc[c] = "done" /\ timer[c].state = "fired")
         => ClassifiedAs(c, "TIMEOUT", TimeoutError)

\* C12: in every call the endpoint and the image fetcher are invoked at most
\* once, the endpoint exactly once if and only if validation and the image
\* fetch both succeeded, and a finished call makes no further invocation.
C12_AtMostOneRequest ==
  /\ [](\A c \in CallIds :
          /\ calls[c].fetch <= 1
          /\ calls[c].endpoint <= 1
          /\ calls[c].endpoint = 1 <=>
               (/\ pc[c] # "idle"
                /\ Validate(args[c].imageUri, args[c].effectName,
                            args[c].customPrompt, apiKey).type = "continue"
                /\ Ok(io[c].status) /\ io[c].blob = "resolved"
                /\ io[c].reader = "loaded"))
  /\ [][\A c \in CallIds : pc[c] = "done" => calls'[c] = calls[c]]_vars

\* a request failed on a rate limit after exactly one fetch and one request
C12_Witness ==
  \E c \in CallIds :
    /\ FailedWith(c, "RATE_LIMIT")
    /\ calls[c].fetch = 1 /\ calls[c].endpoint = 1

\* C13: a call delivers exactly one outcome; once it is delivered, the later
\* completion of the losing branch of the race changes nothing the caller
\* observes.
C13_OutcomeDeliveredOnce ==
  /\ [](\A c \in CallIds : (pc[c] = "done") <=> (outcome[c].status # "pending"))
  /\ [][\A c \in CallIds :
          outcome[c].status # "pending" =>
            (outcome'[c] = outcome[c] /\ pc'[c] = pc[c])]_vars

\* the endpoint answered with an image after TIMEOUT had been delivered
C13_Witness ==
  \E c \in CallIds :
    /\ FailedWith(c, "TIMEOUT")
    /\ api[c].state = "late"
    /\ Has(api[c], "result") /\ HasImage(api[c].result)
    /\ api[c].due = timer[c].due

\* the instruction text of the request the call sent
SentPrompt(c) == api[c].request.contents[1].parts[1].text

CustomWithText(c) ==
  /\ calls[c].endpoint > 0
  /\ ToLowerCase(args[c].effectName) = "custom"
  /\ Trim(args[c].customPrompt) # <<>>

\* C15: for a custom effect name and a custom prompt that is non-empty after
\* trimming, the instruction text sent to the endpoint is exactly the custom
\* prompt with leading and trailing whitespace removed.
C15_TrimmedPromptSent ==
  \A c \in CallIds :
    CustomWithText(c) => SentPrompt(c) = Trim(args[c].customPrompt)

\* C15 (amended): for a custom effect name in any letter case and a custom
\* prompt that is non-empty after trimming, the instruction text sent to the
\* endpoint is exactly the custom prompt as supplied, surrounding whitespace
\* included.
C15_CustomPromptSentAsSupplied ==
  \A c \in CallIds :
    CustomWithText(c) => SentPrompt(c) = args[c].customPrompt

\* a prompt with surrounding whitespace was sent for the effect name "custom"
C15_Witness ==
  \E c \in CallIds :
    /\ CustomWithText(c)
    /\ args[c].effectName = "custom"
    /\ args[c].customPrompt = <<" ", "make it blue", " ">>
    /\ SentPrompt(c) = <<" ", "make it blue", " ">>

\* the reference mapping of the canned effects
CannedSentences ==
  [enhance |-> <<"Enhance this image to make it look more professional with better lighting and colors.">>,
   style   |-> <<"Transform this image into an artistic style, like a painting.">>,
   crop    |-> <<"Crop and frame this image to focus on the main subject.">>,
   adjust  |-> <<"Adjust the contrast and brightness of this image to make it look better.">>]

\* C16: for a non-custom effect name the prompt sent is the canned sentence of
\* the lower-cased name (enhance, style, crop, adjust, in any letter case) and
\* otherwise "Apply a <effectName> effect to this image.", which contains the
\* original name and differs from the four canned sentences.
C16_CannedPromptSent ==
  \A c \in CallIds :
    (calls[c].endpoint > 0 /\ ToLowerCase(args[c].effectName) # "custom") =>
      IF ToLowerCase(args[c].effectName) \in DOMAIN CannedSentences
        THEN SentPrompt(c) = CannedSentences[ToLowerCase(args[c].effectName)]
        ELSE /\ SentPrompt(c) =
                  <<"Apply a ", args[c].effectName, " effect to this image.">>
             /\ Includes(SentPrompt(c), args[c].effectName)
             /\ \A k \in DOMAIN CannedSentences :
                  SentPrompt(c) # CannedSentences[k]

\* the name "Enhance" was sent with the sentence of "enhance"
C16_Witness ==
  \E c \in CallIds :
    /\ calls[c].endpoint > 0
    /\ args[c].effectName = "Enhance"
    /\ SentPrompt(c) = CannedSentences.enhance

\* what one invocation owns
PerCall(c) ==
  <<pc[c], args[c], imageData[c], timer[c], api[c], outcome[c], calls[c],
    io[c]>>

\* the completion the events of call c alone determine once the race is over
OwnCompletion(c) ==
  IF EndpointWon(c)
    THEN IF Has(api[c], "result") THEN Extract(api[c].result)
                                  ELSE Throw(api[c].error)
    ELSE Throw(TimeoutError)

\* C14: of two calls in flight together on different images, under every
\* interleaving of their fetch, endpoint and timer events, each call sends its
\* own image and returns the result or failure of its own endpoint request and
\* its own timer; a step of one call changes nothing of the other call, and
\* the credential is never written.
C14_CallsDoNotInterfere ==
  /\ [](\A c \in CallIds :
          /\ calls[c].endpoint > 0 =>
               /\ api[c].request.contents[1].parts[2].inlineData.data
                    = BlobAt(args[c].imageUri).data
               /\ SentPrompt(c)
                    = BuildPrompt(args[c].effectName, args[c].customPrompt)
               /\ timer[c].due = api[c].sentAt + TIMEOUT_MS
          /\ (pc[c] = "done" /\ calls[c].endpoint > 0) =>
               /\ EndpointWon(c) => api[c].due <= timer[c].due
               /\ ~EndpointWon(c) =>
                    (timer[c].state = "fired" /\ timer[c].due <= api[c].due)
               /\ IF OwnCompletion(c).type = "return"
                    THEN /\ Resolved(c)
                         /\ outcome[c].value = OwnCompletion(c).value
                         /\ outcome[c].value =
                              <<"data:", "image/png", ";base64,", "edited:">>
                                \o BlobAt(args[c].imageUri).data
                    ELSE /\ Rejected(c)
                         /\ outcome[c].error = Catch(OwnCompletion(c).error)
          /\ (pc[c] = "done" /\ calls[c].endpoint = 0) => Rejected(c))
  /\ [][/\ apiKey' = apiKey
        /\ \A c, d \in CallIds :
             (c # d /\ PerCall(c)' # PerCall(c)) => PerCall(d)' = PerCall(d)]_vars

\* both requests were in flight together, call 2 was answered while call 1
\* was still waiting, and each call resolved with its own edited image
C14_Witness ==
  /\ \A c \in CallIds : Resolved(c) /\ EndpointWon(c)
  /\ args[1].imageUri # args[2].imageUri
  /\ api[1].sentAt <= api[2].sentAt
  /\ api[2].due < api[1].due
  /\ outcome[1].value # outcome[2].value

\* C18: Undo (resetImage) sets processedImage to null only when a processed
\* and a selected image exist and never changes selectedImage, customPrompt or
\* the last-image reference, so that afterwards the displayed image is the
\* selected image; Clear (clearImage) sets selectedImage and processedImage to
\* null, empties the prompt and navigates to the camera tab.
C18_UndoAndClear ==
  [][/\ ResetImage =>
          /\ editor'.selectedImage = editor.selectedImage
          /\ editor'.customPrompt = editor.customPrompt
          /\ editor'.lastImageUriRef = editor.lastImageUriRef
          /\ editor'.processedImage # editor.processedImage =>
               /\ Truthy(editor.processedImage)
               /\ Truthy(editor.selectedImage)
               /\ editor'.processedImage = NULL
          /\ Truthy(DisplayImage')
          /\ DisplayImage' = editor.selectedImage
     /\ ClearImage =>
          /\ editor'.selectedImage = NULL
          /\ editor'.processedImage = NULL
          /\ editor'.customPrompt = <<>>
          /\ nav'.tab = "camera"]_vars

\* an image picked from the gallery was transformed and the result undone:
\* the original is displayed, the prompt is still the one that was sent
C18_Witness ==
  /\ Resolved(1) /\ pc[2] = "idle"
  /\ nav.tab = "editor" /\ nav.imageUri = NULL
  /\ ~editor.alert /\ ~editor.picking
  /\ editor.processedImage = NULL
  /\ editor.selectedImage = <<args[1].imageUri>>
  /\ editor.lastImageUriRef = editor.selectedImage
  /\ editor.customPrompt = args[1].customPrompt
  /\ DisplayImage = editor.selectedImage

\* C19: a Transform (applyCustomPrompt) ends in exactly one of two ways:
\* processedImage is set to the returned image, or the error modal is shown
\* with a non-null message and processedImage is unchanged; either way
\* isProcessing and currentEffect are reset in the step that follows the
\* delivery of the outcome, and a Transform refused before the request shows
\* the modal without entering the processing state.
C19_TransformEndsOneOfTwoWays ==
  /\ [](editor.isProcessing <=> editor.awaiting # 0)
  /\ [][ContinuationReady => ApplyCustomPromptDone]_vars
  /\ [][ApplyCustomPromptDone =>
          /\ ~editor'.isProcessing
          /\ editor'.currentEffect = NULL
          /\ \/ /\ Resolved(editor.awaiting)
                /\ editor'.processedImage = outcome[editor.awaiting].value
                /\ ~editor'.showErrorModal
             \/ /\ Rejected(editor.awaiting)
                /\ editor'.showErrorModal
                /\ Truthy(editor'.errorMessage)
                /\ editor'.processedImage = editor.processedImage]_vars
  /\ [][(\E c \in CallIds : ApplyCustomPrompt(c)) =>
          \/ /\ editor'.isProcessing
             /\ pc'[editor'.awaiting] # "idle"
             /\ ~editor'.showErrorModal
          \/ /\ ~editor'.isProcessing
             /\ editor'.showErrorModal
             /\ Truthy(editor'.errorMessage)
             /\ editor'.processedImage = editor.processedImage
             /\ pc' = pc]_vars

\* a second Transform timed out: the modal shows the timeout message, the
\* result of the first Transform is still displayed, processing is over
C19_Witness ==
  /\ Resolved(1) /\ FailedWith(2, "TIMEOUT")
  /\ editor.awaiting = 0 /\ ~editor.isProcessing
  /\ editor.currentEffect = NULL
  /\ editor.showErrorModal
  /\ editor.errorMessage = ErrorMessageFor(outcome[2].error)
  /\ editor.processedImage = outcome[1].value

\* C17: "Use Photo" (goToEditor) navigates to the editor with the image it
\* captured only after that image was saved to the media library; a failed
\* save shows the alert and changes neither the route nor capturedImage; a
\* goToEditor without a captured image changes nothing.
C17_NavigateOnlyAfterSave ==
  /\ [](Truthy(nav.imageUri) => nav.imageUri \in library)
  /\ [][/\ GoToEditor =>
             /\ nav' = nav /\ library' = library /\ editor' = editor
             /\ camera'.capturedImage = camera.capturedImage
             /\ IF Truthy(camera.capturedImage)
                  THEN camera'.saving =
                         Append(camera.saving, camera.capturedImage)
                  ELSE camera' = camera
        /\ (\E i \in 1..MaxSaves : SaveSucceeds(i)) =>
             /\ nav'.tab = "editor"
             /\ \E i \in 1..Len(camera.saving) :
                  nav'.imageUri = camera.saving[i]
             /\ nav'.imageUri \in library'
             /\ camera'.capturedImage = NULL
        /\ (\E i \in 1..MaxSaves : SaveFails(i)) =>
             /\ nav' = nav /\ library' = library
             /\ camera'.alert
             /\ camera'.capturedImage = camera.capturedImage
        /\ nav'.imageUri # nav.imageUri =>
             (nav'.tab = "editor" /\ nav'.imageUri \in library')]_vars

\* a first save failed and the alert was dismissed, a second save succeeded:
\* the editor was opened with the photo, which is in the library
C17_Witness ==
  /\ nav.tab = "editor" /\ nav.imageUri = <<ImageA>>
  /\ library = {<<ImageA>>}
  /\ camera.capturedImage = NULL /\ camera.saving = <<>> /\ ~camera.alert
  /\ editor.selectedImage = <<ImageA>>

\* C20: a CameraView requests camera permission when it mounts; if permission
\* is granted while it is mounted the launch is scheduled, and a view that
\* stays mounted is eventually launched by the timer, without user action; if
\* permission is denied or the request fails hasPermission is false and
\* nothing is scheduled or launched; a camera launch starts only in a mounted
\* view that has permission, so a view unmounted before the answer or before
\* the delay has elapsed is never launched automatically.
C20_AutomaticLaunch ==
  /\ [](\A k \in Keys : view[k].isMounted =>
          /\ view[k].permission \in {"pending", "granted", "denied", "failed"}
          /\ view[k].permission = "pending" =>
               (view[k].hasPermission = "null" /\ view[k].timer = "unset"
                /\ view[k].inFlight = 0)
          /\ view[k].permission \in {"denied", "failed"} =>
               (view[k].hasPermission = "false" /\ view[k].timer = "unset"
                /\ view[k].inFlight = 0)
          /\ view[k].permission = "granted" =>
               (view[k].hasPermission = "true" /\ view[k].timer # "unset"))
  /\ [][\A k \in Keys :
          /\ view'[k].inFlight > view[k].inFlight =>
               (view[k].isMounted /\ view[k].hasPermission = "true")
          /\ (view[k].timer = "armed" /\ view'[k].timer # "armed") =>
               (view[k].isMounted <=>
                  view'[k].inFlight = view[k].inFlight + 1)
          /\ (view[k].timer # "armed" /\ view'[k].timer = "armed") =>
               (view[k].isMounted /\ view[k].permission = "pending")
          /\ (~view[k].isMounted /\ view[k].permission # "none") =>
               ~view'[k].isMounted]_vars
  /\ \A k \in Keys :
       (view[k].isMounted /\ view[k].permission = "granted")
         ~> (~view[k].isMounted \/ view[k].timer = "fired")

\* the first CameraView was launched by its timer: the native camera is open
\* and nothing was captured yet
C20_Witness ==
  /\ camera.key = 1
  /\ view[1].isMounted /\ view[1].permission = "granted"
  /\ view[1].timer = "fired"
  /\ view[1].inFlight = 1 /\ view[1].isCapturing
  /\ camera.capturedImage = NULL

\* the preconditions of applyImageEffect that a call fails, as the kinds they
\* are reported with, in the order of the checks
FailedPreconditions(c) ==
  (IF Falsy(args[c].imageUri) THEN <<"MISSING_IMAGE">> ELSE <<>>)
  \o (IF CustomBlank(c) THEN <<"EMPTY_PROMPT">> ELSE <<>>)
  \o (IF KeyInvalid THEN <<"MISSING_API_KEY">> ELSE <<>>)

\* C21: a call that fails several preconditions at once (no source image, a
\* custom effect with a blank prompt, a missing or placeholder key) fails with
\* the kind of the first of them in the order MISSING_IMAGE, EMPTY_PROMPT,
\* MISSING_API_KEY.
C21_FirstFailedPrecondition ==
  \A c \in CallIds :
    (pc[c] # "idle" /\ Len(FailedPreconditions(c)) >= 2) =>
      FailedWith(c, FailedPreconditions(c)[1])

\* C22: every invocation eventually completes, with a result or a failure,
\* provided the clock and the 60 s timer are fair, even when the image fetch,
\* its encoding or the endpoint never answers.
C22_EveryInvocationCompletes ==
  \A c \in CallIds : (pc[c] # "idle") ~> (pc[c] = "done")

\* the calls whose result is this image
ResultOf(image) ==
  {c \in CallIds : Resolved(c) /\ outcome[c].value = image}

\* C23: in every state of the editor a processed image comes with a selected
\* image and is the result of a request made for that selected image: the
\* result of a request for an image that was replaced or cleared meanwhile is
\* never shown.
C23_ProcessedImageOfSelected ==
  Truthy(editor.processedImage) =>
    /\ Truthy(editor.selectedImage)
    /\ \E c \in ResultOf(editor.processedImage) :
          <<args[c].imageUri>> = editor.selectedImage

\* a step in which the editor screen gains focus with the imageUri parameter
\* it already had
FocusUnchangedParam ==
  nav.tab = "camera" /\ nav'.tab = "editor" /\ nav'.imageUri = nav.imageUri

\* C24: the selected image changes only when the gallery picker returns an
\* image, on Clear, or when a different imageUri parameter arrives; a focus of
\* the editor screen with an unchanged imageUri parameter changes neither the
\* selected image, the processed image nor the custom prompt.
C24_ImageChangesOnlyOnUserAction ==
  [][/\ FocusUnchangedParam =>
          /\ editor'.selectedImage = editor.selectedImage
          /\ editor'.processedImage = editor.processedImage
          /\ editor'.customPrompt = editor.customPrompt
     /\ editor'.selectedImage # editor.selectedImage =>
          \/ editor.picking /\ ~editor'.picking
          \/ nav.tab = "editor" /\ nav'.tab = "camera"
               /\ editor'.selectedImage = NULL
          \/ nav'.imageUri # nav.imageUri]_vars

\* C25: a CameraView never has more than one launchCameraAsync call in flight,
\* however the automatic launch 300 ms after the permission and presses of
\* "Take Photo" interleave.
C25_AtMostOneLaunchInFlight ==
  \A k \in Keys : view[k].inFlight <= 1

\* the calls of applyImageEffect that have not completed
InFlightCalls == {c \in CallIds : pc[c] \notin {"idle", "done"}}

\* the messages of the two early returns of applyCustomPrompt
TransformRefusals ==
  {<<"Please select an image first">>,
   <<"Please enter a text prompt for the AI">>}

\* C26: the editor never has two calls of applyImageEffect in flight; every
\* call it makes is made while no other is in flight and isProcessing is
\* false, for the selected image (not null) and with the custom prompt, which
\* is not blank; and a Transform that is refused for a missing image or a
\* blank prompt shows the error modal and makes no call.
C26_OneRequestWithImageAndPrompt ==
  [][/\ Cardinality(InFlightCalls') <= 1
     /\ \A c \in CallIds :
          (pc[c] = "idle" /\ pc'[c] # "idle") =>
            /\ InFlightCalls = {} /\ ~editor.isProcessing
            /\ Truthy(editor.selectedImage)
            /\ <<args'[c].imageUri>> = editor.selectedImage
            /\ args'[c].customPrompt = editor.customPrompt
            /\ Trim(args'[c].customPrompt) # <<>>
     /\ (editor'.errorMessage \in TransformRefusals
           /\ editor.errorMessage \notin TransformRefusals) =>
          /\ ~Truthy(editor.selectedImage)
               \/ Trim(editor.customPrompt) = <<>>
          /\ editor'.showErrorModal
          /\ pc' = pc /\ calls' = calls]_vars

\* a second request is in flight after the first one has given its image
C26_Witness ==
  /\ pc[1] = "done" /\ Resolved(1)
  /\ pc[2] = "race" /\ editor.isProcessing /\ editor.awaiting = 2
  /\ Truthy(editor.processedImage)

====
